---- MODULE Spec2Model ----
(***************************************************************************)
(* Verification model of the ai-newsroom server.                           *)
(*                                                                         *)
(* Nine specifications share this module:                                  *)
(*   SpecAgent  the OpenAIAgent wrapper (server/src/agents/openAIAgent.ts):*)
(*              callAPI, the deterministic mock responses including the    *)
(*              regex based fake-news scorer, and the result handling of   *)
(*              the six agent operations.  The inputs of a call are drawn  *)
(*              from bounded sets by the initial state.                    *)
(*   Spec       the processing pipeline (services/processService.ts), the  *)
(*              two routes that start it and the document store.           *)
(*   SpecRelay  the same pipeline together with the socket relay           *)
(*              (services/socketService.ts): connections come and go.      *)
(*   SpecAccess one processing run together with the article, results,     *)
(*              distribution and job-status routes.                        *)
(*   SpecRoles  the routes guarded by authorize, for users of every role.  *)
(*   SpecClient the browser's ApiService handling one request: response    *)
(*              interceptor and refreshToken.                              *)
(*   SpecDistribute  the calls of DistributionService                      *)
(*              (services/distributionService.ts) and the events they emit,*)
(*              with weak fairness of an awaited platform method settling. *)
(*   SpecRegister  POST /api/auth/register requests, one step per await,   *)
(*              against the User collection and its unique email index.    *)
(*   SpecSocial the connect, disconnect and platforms routes on a user's   *)
(*              socialAccounts.                                            *)
(*                                                                         *)
(* A text (article content, title, brand-voice prompt ...) is abstracted   *)
(* to the features the code inspects: which of the mock router's keywords  *)
(* it contains, and which of the scorer's regular expressions match it.    *)
(***************************************************************************)
EXTENDS Integers, Sequences, FiniteSets, TLC

VARIABLES
    call,       \* SpecAgent: the inputs of the last agent operation
    reply,      \* SpecAgent: what callAPI returned / whether it threw
    result,     \* SpecAgent: what the agent operation returned
    articles,   \* Article collection: id -> document
    contents,   \* ReformattedContent collection: sequence of documents
    jobs,       \* the processing requests received, each with its position
    sockets,    \* the open socket connections
    delivered,  \* <<client, user>>: client received an event emitted for user
    roles,      \* User collection: user id -> role
    voices,     \* BrandVoice collection: sequence of documents
    answer,     \* the last answer of a route that is served in one step
    api,        \* the browser's ApiService handling one request
    posts,      \* the calls of DistributionService, each with its position
    accounts,   \* User collection: the documents with their email
    registrations,  \* the POST /api/auth/register requests received
    socialAccounts  \* User collection: user id -> socialAccounts array

agentVars == <<call, reply, result>>
procVars == <<articles, contents, jobs, sockets, delivered>>
accessVars == <<roles, voices, answer>>
userVars == <<posts, accounts, registrations, socialAccounts>>
vars == <<call, reply, result, articles, contents, jobs, sockets, delivered,
          roles, voices, answer, api, posts, accounts, registrations,
          socialAccounts>>

Min(a, b) == IF a < b THEN a ELSE b
Max(a, b) == IF a > b THEN a ELSE b

(***************************************************************************)
(* Text features                                                           *)
(***************************************************************************)
\* substrings the mock router looks for in the joined messages
Keywords == {"draft", "factcheck", "fakenews", "seo"}

\* fakeNewsIndicators: one name per regular expression
RedFlagPatterns == {"clickbait", "emotionalManipulation", "unverifiedClaims",
                    "exaggeration", "urgency", "conspiracy"}

\* credibleIndicators
CrediblePatterns == {"citations", "balanced", "specific"}

\* severity pushed into detectedFlags for each matched pattern
Severity(p) ==
    CASE p = "clickbait"             -> "high"
      [] p = "emotionalManipulation" -> "critical"
      [] p = "unverifiedClaims"      -> "high"
      [] p = "exaggeration"          -> "medium"
      [] p = "urgency"               -> "high"
      [] p = "conspiracy"            -> "critical"

Text(kw, flags, cred) == [kw |-> kw, flags |-> flags, cred |-> cred]

PlainText == Text({}, {}, {})

\* every combination of regex matches, no router keyword
ScorerTexts == {Text({}, f, c) : f \in SUBSET RedFlagPatterns, c \in SUBSET CrediblePatterns}

\* every combination of router keywords, with and without red flags
KeywordTexts == {Text(k, f, {}) : k \in SUBSET Keywords,
                                  f \in {{}, {"clickbait", "conspiracy"}}}

Texts == ScorerTexts \cup KeywordTexts

\* template literal joining two texts into one message
Concat(t1, t2) == Text(t1.kw \cup t2.kw, t1.flags \cup t2.flags, t1.cred \cup t2.cred)

(***************************************************************************)
(* Responses: the string callAPI returns, as the parser will see it        *)
(***************************************************************************)
Absent == "absent"

\* kind "text"/"empty" is not JSON; the other kinds parse to an object with
\* the listed fields (has* = FALSE when the field is missing or falsy-typed)
Response(kind, hasVStatus, vStatus, hasVScore, vScore, isVerified, hasAScore, aScore, aStatus, hasSummary, hasRedFlags) ==
    [kind |-> kind,
     hasVStatus |-> hasVStatus, vStatus |-> vStatus,
     hasVScore |-> hasVScore, vScore |-> vScore, isVerified |-> isVerified,
     hasAScore |-> hasAScore, aScore |-> aScore, aStatus |-> aStatus,
     hasSummary |-> hasSummary, hasRedFlags |-> hasRedFlags]

PlainObject(kind) ==
    Response(kind, FALSE, Absent, FALSE, 0, Absent, FALSE, 0, Absent, FALSE, FALSE)

FactCheckObject(hasStatus, status, hasScore, score, verified) ==
    Response("json", hasStatus, status, hasScore, score, verified,
             FALSE, 0, Absent, FALSE, FALSE)

FakeNewsObject(hasScore, score, status, hasSummary, hasRedFlags) ==
    Response("json", FALSE, Absent, FALSE, 0, Absent,
             hasScore, score, status, hasSummary, hasRedFlags)

IsJSON(r) == r.kind \notin {"text", "empty"}


(***************************************************************************)
(* OpenAIAgent.getMockResponse                                             *)
(***************************************************************************)
Ops == {"generateArticle", "runResearcher", "runReformatter",
        "runFactChecker", "runSEOOptimizer", "runFakeNewsDetection"}

\* router keywords contained in the fixed prompt text of each operation
PromptKeywords(op) ==
    CASE op = "generateArticle"      -> {"draft"}
      [] op = "runFactChecker"       -> {"factcheck"}
      [] op = "runSEOOptimizer"      -> {"seo"}
      [] op = "runFakeNewsDetection" -> {"fakenews"}
      [] OTHER                       -> {}

\* messages: the operation's prompt plus the user supplied text
Messages(op, text) == [op |-> op, text |-> text]

\* fullContent = messages.map(content).join('\n')
FullContentKeywords(messages) == PromptKeywords(messages.op) \cup messages.text.kw

baseScore == 90
penaltyPerFlag == 25

CredibilityBonus(text) ==
    (IF "citations" \in text.cred THEN 10 ELSE 0)
  + (IF "balanced" \in text.cred THEN 5 ELSE 0)
  + (IF "specific" \in text.cred THEN 5 ELSE 0)

HasCriticalFlag(text) == \E p \in text.flags : Severity(p) = "critical"

MockAuthenticityScoreNoPenalty(text) ==
    Max(0, Min(100, baseScore + CredibilityBonus(text)))

MockAuthenticityScoreNoCriticalCap(text) ==
    LET redFlagCount == Cardinality(text.flags)
        s0 == Max(0, Min(100, baseScore - (redFlagCount * penaltyPerFlag) + CredibilityBonus(text)))
    IN  IF redFlagCount > 1 THEN Min(s0, 49) ELSE s0

MockAuthenticityScore(text) ==
    LET redFlagCount == Cardinality(text.flags)
        s0 == Max(0, Min(100, baseScore - (redFlagCount * penaltyPerFlag) + CredibilityBonus(text)))
        s1 == IF redFlagCount > 1 THEN Min(s0, 49) ELSE s0
    IN  IF HasCriticalFlag(text) THEN Min(s1, 39) ELSE s1

MockAuthenticityStatus(authenticityScore) ==
    IF authenticityScore >= 85 THEN "authentic"
    ELSE IF authenticityScore >= 70 THEN "mixed"
    ELSE IF authenticityScore >= 50 THEN "suspicious"
    ELSE IF authenticityScore >= 25 THEN "likely-fake"
    ELSE "verified-fake"

MockFakeNewsResponse(text) ==
    LET authenticityScore == MockAuthenticityScore(text)
    IN  [FakeNewsObject(TRUE, authenticityScore,
                        MockAuthenticityStatus(authenticityScore), TRUE, TRUE)
            EXCEPT !.kind = "fakenews"]

MockFactCheckResponse ==
    [FactCheckObject(TRUE, "verified", TRUE, 95, "true") EXCEPT !.kind = "factcheck"]

getMockResponse(messages) ==
    LET kw == FullContentKeywords(messages)
    IN  IF "draft" \in kw THEN PlainObject("text")
        ELSE IF "factcheck" \in kw THEN MockFactCheckResponse
        ELSE IF "fakenews" \in kw THEN MockFakeNewsResponse(messages.text)
        ELSE IF "seo" \in kw THEN PlainObject("seo")
        ELSE PlainObject("research")

(***************************************************************************)
(* OpenAIAgent.callAPI                                                     *)
(***************************************************************************)
\* what the language model may answer
LlmScores == {0, 30, 50, 59, 60, 89, 90, 100}
LlmVStatuses == {"verified", "needs_review", "failed"}

LlmFactCheckReplies ==
    {FactCheckObject(TRUE, st, TRUE, sc, v) :
        st \in LlmVStatuses, sc \in LlmScores, v \in {"true", "false"}}
    \cup {FactCheckObject(FALSE, Absent, TRUE, sc, v) :
        sc \in LlmScores, v \in {Absent, "true"}}
    \cup {FactCheckObject(hs, IF hs THEN "failed" ELSE Absent, FALSE, 0, Absent) :
        hs \in BOOLEAN}

LlmFakeNewsReplies ==
    {FakeNewsObject(TRUE, sc, st, hs, hr) :
        sc \in {-5, 0, 40, 85, 100, 150}, st \in {"authentic", "suspicious"},
        hs \in BOOLEAN, hr \in BOOLEAN}
    \cup {FakeNewsObject(FALSE, 0, "mixed", hs, hr) : hs \in BOOLEAN, hr \in BOOLEAN}

LlmReplies ==
    LlmFactCheckReplies \cup LlmFakeNewsReplies
    \cup {PlainObject("text"), PlainObject("empty"), PlainObject("json")}

\* the environment of one call: no API key, the API call throws, or it answers
Envs ==
    {[mode |-> m, content |-> PlainObject("empty")] : m \in {"nokey", "throws"}}
    \cup {[mode |-> "ok", content |-> r] : r \in LlmReplies}

callAPIRethrows(env, messages) ==
    IF env.mode = "nokey"
    THEN [threw |-> FALSE, response |-> getMockResponse(messages)]
    ELSE IF env.mode = "ok"
    THEN [threw |-> FALSE, response |-> env.content]
    ELSE [threw |-> TRUE, response |-> PlainObject("empty")]

callAPI(env, messages) ==
    IF env.mode = "nokey"
    THEN [threw |-> FALSE, response |-> getMockResponse(messages)]
    ELSE IF env.mode = "ok"
    THEN [threw |-> FALSE, response |-> env.content]
    ELSE [threw |-> FALSE, response |-> getMockResponse(messages)]

(***************************************************************************)
(* Result handling of the agent operations                                 *)
(***************************************************************************)
\* source: "parsed" (JSON.parse succeeded and the object is returned),
\*         "fallback" (the catch block's literal), "raw" (the string itself),
\*         "thrown" (the operation rejected)
Result(source, r) ==
    [source |-> source,
     hasVStatus |-> r.hasVStatus, vStatus |-> r.vStatus,
     hasVScore |-> r.hasVScore, vScore |-> r.vScore, isVerified |-> r.isVerified,
     hasAScore |-> r.hasAScore, aScore |-> r.aScore, aStatus |-> r.aStatus]

NoResult == Result("none", PlainObject("empty"))
Thrown == Result("thrown", PlainObject("empty"))

\* runFactChecker, from the response on (lines 469-505)
FactCheckerResult(response) ==
    IF ~IsJSON(response)
    THEN Result("fallback", FactCheckObject(TRUE, "needs_review", TRUE, 50, "false"))
    ELSE LET score == IF response.hasVScore /\ response.vScore # 0
                      THEN response.vScore ELSE 100
         IN  IF ~response.hasVStatus
             THEN IF score >= 90
                  THEN Result("parsed", [response EXCEPT !.hasVStatus = TRUE,
                                          !.vStatus = "verified", !.isVerified = "true"])
                  ELSE IF score >= 60
                  THEN Result("parsed", [response EXCEPT !.hasVStatus = TRUE,
                                          !.vStatus = "needs_review", !.isVerified = "false"])
                  ELSE Result("parsed", [response EXCEPT !.hasVStatus = TRUE,
                                          !.vStatus = "failed", !.isVerified = "false"])
             ELSE Result("parsed", response)

\* runFakeNewsDetection, from the response on (lines 671-760)
FakeNewsFallback == Result("fallback", FakeNewsObject(TRUE, 40, "suspicious", TRUE, TRUE))

FakeNewsDetectionResult(response) ==
    IF ~IsJSON(response)
    THEN FakeNewsFallback
    ELSE IF ~response.hasSummary /\ ~response.hasRedFlags
    THEN FakeNewsFallback     \* result.redFlags.length throws a TypeError
    ELSE Result("parsed", response)

\* runResearcher, runSEOOptimizer, runReformatter: parse or literal fallback
ParsedOrFallback(response) ==
    IF IsJSON(response) THEN Result("parsed", response)
    ELSE Result("fallback", PlainObject("json"))

OperationResult(op, response) ==
    CASE op = "generateArticle"      -> Result("raw", response)
      [] op = "runFactChecker"       -> FactCheckerResult(response)
      [] op = "runFakeNewsDetection" -> FakeNewsDetectionResult(response)
      [] OTHER                       -> ParsedOrFallback(response)

runFakeNewsDetection(env, content) ==
    LET r == callAPI(env, Messages("runFakeNewsDetection", content))
    IN  IF r.threw THEN Thrown ELSE FakeNewsDetectionResult(r.response)

runFactChecker(env, originalContent, reformattedContent) ==
    LET r == callAPI(env, Messages("runFactChecker",
                                   Concat(originalContent, reformattedContent)))
    IN  IF r.threw THEN Thrown ELSE FactCheckerResult(r.response)

(***************************************************************************)
(* SpecAgent: the agent operations applied to bounded inputs               *)
(***************************************************************************)
\* texts used together with a language-model answer, and as second text
FewTexts == {PlainText, Text({"draft"}, {}, {}), Text({}, {"clickbait", "conspiracy"}, {})}

AgentInputs ==
    {[env |-> e, text |-> t] : e \in {x \in Envs : x.mode # "ok"}, t \in Texts}
    \cup {[env |-> e, text |-> t] : e \in {x \in Envs : x.mode = "ok"}, t \in FewTexts}

\* the calls the agent may receive: an operation and its inputs
\* no distribution call, no account, no registration, no social account
UsersIdle ==
    /\ posts = <<>>
    /\ accounts = <<>>
    /\ registrations = <<>>
    /\ socialAccounts = <<>>

AgentCalls ==
    {[op |-> op, env |-> in.env, text |-> in.text, reformatted |-> PlainText] :
        op \in Ops \ {"runFactChecker"}, in \in AgentInputs}
    \cup {[op |-> "runFactChecker", env |-> in.env, text |-> in.text, reformatted |-> t2] :
        in \in AgentInputs, t2 \in FewTexts}

NoReply == [threw |-> FALSE, response |-> PlainObject("empty")]

\* a call has been received and not yet served; the store is empty
InitAgent ==
    /\ call \in AgentCalls
    /\ reply = NoReply
    /\ result = NoResult
    /\ articles = <<>>
    /\ contents = <<>>
    /\ jobs = <<>>
    /\ sockets = {}
    /\ delivered = {}
    /\ roles = <<>>
    /\ voices = <<>>
    /\ answer = <<>>
    /\ api = <<>>
    /\ UsersIdle

\* one agent operation with a single user text
Operation(op) ==
    LET r == callAPI(call.env, Messages(op, call.text))
    IN  /\ result = NoResult
        /\ reply' = r
        /\ result' = IF r.threw THEN Thrown ELSE OperationResult(op, r.response)
        /\ UNCHANGED <<call, userVars, procVars, accessVars, api>>

GenerateArticle ==
    /\ call.op = "generateArticle"
    /\ Operation("generateArticle")

RunResearcher ==
    /\ call.op = "runResearcher"
    /\ Operation("runResearcher")

RunReformatter ==
    /\ call.op = "runReformatter"
    /\ Operation("runReformatter")

RunSEOOptimizer ==
    /\ call.op = "runSEOOptimizer"
    /\ Operation("runSEOOptimizer")

RunFakeNewsDetection ==
    /\ call.op = "runFakeNewsDetection"
    /\ Operation("runFakeNewsDetection")


RunFactChecker ==
    /\ call.op = "runFactChecker"
    /\ result = NoResult
    /\ reply' = callAPI(call.env, Messages("runFactChecker",
                                           Concat(call.text, call.reformatted)))
    /\ result' = runFactChecker(call.env, call.text, call.reformatted)
    /\ UNCHANGED <<call, userVars, procVars, accessVars, api>>

NextAgent ==
    \/ GenerateArticle
    \/ RunResearcher
    \/ RunReformatter
    \/ RunFactChecker
    \/ RunSEOOptimizer
    \/ RunFakeNewsDetection



(***************************************************************************)
(* The document store, the requests and the synchronous parts of           *)
(* ProcessService.startProcessing                                          *)
(***************************************************************************)
MaxArticles == 1
MaxJobs == 2
MaxSockets == 1
MaxPlatforms == 2
MaxRelayJobs == 1

Users == {"u1", "u2"}
JobIds == 1..MaxJobs
\* the users who upload articles (every user may send requests)
Uploaders == {"u1"}
ArticleIds == 1..MaxArticles

\* validPlatforms of POST /api/process/start
ValidPlatforms == {"linkedin", "tiktok", "newsletter", "seo",
                   "press-release", "twitter", "instagram"}

\* the platform lists a request may carry: the non-empty prefixes of
\* PlatformPool up to MaxPlatforms entries, and a list with an unknown platform
PlatformPool == <<"seo", "linkedin", "twitter", "tiktok">>
PlatformLists ==
    {SubSeq(PlatformPool, 1, n) : n \in 1..Min(MaxPlatforms, Len(PlatformPool))}
    \cup {<<"facebook">>}

BrandVoiceIds == {"none", "malformed"}

\* content of an uploaded article
ArticleTexts == {Text({}, {"clickbait"}, {"citations"})}

\* what the language model does during a processing run
ProcEnvs ==
    {[mode |-> "nokey", content |-> PlainObject("empty")],
     [mode |-> "ok", content |-> PlainObject("text")],
     [mode |-> "ok", content |-> FakeNewsObject(TRUE, 150, "authentic", TRUE, TRUE)]}

NoDetection == [analyzed |-> FALSE, hasScore |-> FALSE, score |-> 0, status |-> Absent]

NoArticle == [owner |-> "none", status |-> "absent", content |-> PlainText,
              originalContent |-> PlainText,
              brandVoice |-> "none", fakeNewsDetection |-> NoDetection]

\* a deleted document keeps its slot: an ObjectId is never issued twice
Exists(a) == articles[a].status \notin {"absent", "deleted"}

\* log entries: emitted socket events and awaited agent calls
AgentStatus(agent, status) == <<"agent:status", agent, status>>
AgentCall(method, platform) == <<"call", method, platform>>
ProcessEvent(name, step) == <<name, step, "">>

Log(j, e) == [j EXCEPT !.log = Append(@, e)]

At(j, pc, i) == [j EXCEPT !.pc = pc, !.i = i]

\* runSEOPPhase up to its first await
EnterSEO(j) ==
    LET j1 == Log(j, AgentStatus("seoOptimizer", "running"))
    IN  IF \E k \in 1..Len(j.results) : j.results[k] = "seo"
        THEN At(Log(j1, AgentCall("runSEOOptimizer", "seo")), "optimizeSEO", 0)
        ELSE At(Log(j1, AgentStatus("seoOptimizer", "completed")), "setCompleted", 0)

\* runFactCheckPhase: iteration i of the loop, or the end of the phase
FactCheckStep(j, i) ==
    IF i > Len(j.results)
    THEN EnterSEO(Log(j, AgentStatus("factChecker", "completed")))
    ELSE At(Log(j, AgentCall("runFactChecker", j.results[i])), "factCheck", i)

EnterFactCheck(j) == FactCheckStep(Log(j, AgentStatus("factChecker", "running")), 1)

\* runReformatPhase: iteration i of the saving loop, or the end of the phase
SaveStep(j, i) ==
    IF i > Len(j.results)
    THEN EnterFactCheck(Log(j, AgentStatus("reformatter", "completed")))
    ELSE At(j, "saveContent", i)

\* runReformatPhase: iteration i of the formatting loop
ReformatStep(j, i) ==
    IF i > Len(j.platforms)
    THEN SaveStep(j, 1)
    ELSE At(Log(Log(j, <<"process:update", "Formatting", j.platforms[i]>>),
                AgentCall("runReformatter", j.platforms[i])), "reformat", i)

\* mutant: the fact-check phase is announced together with the reformat phase
EnterReformatParallel(j) ==
    ReformatStep(Log(Log(j, AgentStatus("reformatter", "running")),
                     AgentStatus("factChecker", "running")), 1)

EnterReformat(j) == ReformatStep(Log(j, AgentStatus("reformatter", "running")), 1)

\* runFakeNewsDetectionPhase up to its first await
EnterDetection(j) ==
    At(Log(Log(Log(j, AgentStatus("factChecker", "running")),
               ProcessEvent("process:update", "Analyzing")),
           AgentCall("runFakeNewsDetection", "")), "detect", 0)

\* runResearchPhase up to its await
EnterResearch(j) ==
    At(Log(Log(j, AgentStatus("researcher", "running")),
           AgentCall("runResearcher", "")), "research", 0)

emitProcessStarted(j) ==
    Log(Log(j, ProcessEvent("process:started", "")),
        ProcessEvent("process:update", "Initializing"))

\* startProcessing from its call to its first await
StartProcessing(j) ==
    IF j.brandVoice # "none"
    THEN At(j, "findBrandVoice", 0)
    ELSE At(emitProcessStarted(j), "setProcessing", 0)

\* io.to(userId).emit: every socket in the room of that user id receives
Room(userId) == {s \in sockets : s.userId = userId}

Emitted(old, new) ==
    \E k \in (Len(old.log) + 1)..Len(new.log) : new.log[k][1] # "call"

Deliver(old, new) ==
    IF Emitted(old, new)
    THEN delivered \cup {<<s.client, new.user>> : s \in Room(new.user)}
    ELSE delivered

\* job j moves on to the record new
Step(j, new) ==
    /\ jobs' = [jobs EXCEPT ![j] = new]
    /\ delivered' = Deliver(jobs[j], new)

(***************************************************************************)
(* ReformattedContent.findOneAndUpdate                                     *)
(***************************************************************************)
Matching(articleId, platform) ==
    {k \in 1..Len(contents) :
        contents[k].articleId = articleId /\ contents[k].platform = platform}

FirstMatch(articleId, platform) ==
    CHOOSE k \in Matching(articleId, platform) :
        \A m \in Matching(articleId, platform) : k <= m

NewContent(articleId, platform, writer) ==
    [articleId |-> articleId, platform |-> platform, writer |-> writer,
     factCheck |-> 0, seo |-> 0]

\* { upsert: true }: $set on the matching document, insert when none matches
UpsertAlwaysInserts(articleId, platform, writer) ==
    Append(contents, NewContent(articleId, platform, writer))

Upsert(articleId, platform, writer) ==
    IF Matching(articleId, platform) = {}
    THEN Append(contents, NewContent(articleId, platform, writer))
    ELSE [contents EXCEPT ![FirstMatch(articleId, platform)].writer = writer]

\* no upsert: $set a field of the matching document, if there is one
UpdateFactCheck(articleId, platform, writer) ==
    IF Matching(articleId, platform) = {}
    THEN contents
    ELSE [contents EXCEPT ![FirstMatch(articleId, platform)].factCheck = writer]

UpdateSEO(articleId, writer) ==
    IF Matching(articleId, "seo") = {}
    THEN contents
    ELSE [contents EXCEPT ![FirstMatch(articleId, "seo")].seo = writer]

\* Article.findByIdAndUpdate(articleId, { status })
SetStatus(articleId, status) ==
    IF Exists(articleId)
    THEN [articles EXCEPT ![articleId].status = status]
    ELSE articles

(***************************************************************************)
(* Requests                                                                *)
(***************************************************************************)
\* requested: the platforms of the request body; platforms: the list the
\* route hands to startProcessing
NewJob(route, user, articleId, requested, platforms, brandVoice) ==
    [route |-> route, user |-> user, article |-> articleId,
     requested |-> requested, platforms |-> platforms, brandVoice |-> brandVoice,
     invalid |-> \E k \in 1..Len(platforms) : platforms[k] \notin ValidPlatforms,
     content |-> PlainText, pc |-> "findArticle", i |-> 0, results |-> <<>>,
     detection |-> NoDetection, log |-> <<>>, http |-> 0]

\* POST /api/articles
Upload(user, text) ==
    /\ \E a \in ArticleIds :
        /\ articles[a].status = "absent"
        /\ \A b \in ArticleIds : b < a => articles[b].status # "absent"
        /\ articles' = [articles EXCEPT ![a] =
              [owner |-> user, status |-> "pending", content |-> text,
               originalContent |-> text,
               brandVoice |-> "none", fakeNewsDetection |-> NoDetection]]
    /\ UNCHANGED <<agentVars, userVars, accessVars, api, contents, jobs, sockets, delivered>>

\* POST /api/process/start arrives (authenticated as user); the validators
\* have run and the handler is at its first await
ProcessStartRequest(user, articleId, platforms, brandVoice) ==
    /\ Len(jobs) < MaxJobs
    /\ jobs' = Append(jobs, NewJob("start", user, articleId, platforms, platforms, brandVoice))
    /\ UNCHANGED <<agentVars, userVars, accessVars, api, articles, contents, sockets, delivered>>

\* POST /api/articles/:id/process arrives, with the platforms the client
\* puts in the body; the route passes platforms: [] to startProcessing
ArticleProcessRequest(user, articleId, platforms) ==
    /\ Len(jobs) < MaxJobs
    /\ jobs' = Append(jobs, NewJob("articles", user, articleId, platforms, <<>>, "none"))
    /\ UNCHANGED <<agentVars, userVars, accessVars, api, articles, contents, sockets, delivered>>

Reject(j, code) == [At(jobs[j], "rejected", 0) EXCEPT !.http = code]

\* the route's lookup of the article and the checks that follow it
FindArticle(j) ==
    LET job == jobs[j]
        a == job.article
        found == IF job.route = "start"
                 THEN Exists(a)
                 ELSE Exists(a) /\ articles[a].owner = job.user
    IN  /\ j \in 1..Len(jobs)
        /\ job.pc = "findArticle"
        /\ IF ~found
           THEN Step(j, Reject(j, 404))
           ELSE IF job.route = "start" /\ articles[a].owner # job.user
           THEN Step(j, Reject(j, 403))
           ELSE IF job.route = "articles" /\ articles[a].status = "processing"
           THEN Step(j, Reject(j, 400))
           ELSE Step(j, [At(job, "saveStatus", 0) EXCEPT
                            !.content = articles[a].content,
                            !.brandVoice = IF job.route = "start" /\ @ # "none"
                                           THEN @ ELSE articles[a].brandVoice])
        /\ UNCHANGED <<agentVars, userVars, accessVars, api, articles, contents, sockets>>

\* article.save() of the route, then the call of startProcessing; the
\* /articles/:id/process route does not await it and answers at once
SaveStatus(j) ==
    LET job == jobs[j]
    IN  /\ j \in 1..Len(jobs)
        /\ job.pc = "saveStatus"
        /\ Exists(job.article)
        /\ articles' = SetStatus(job.article, "processing")
        /\ Step(j, IF job.route = "articles"
                   THEN [StartProcessing(job) EXCEPT !.http = 200]
                   ELSE StartProcessing(job))
        /\ UNCHANGED <<agentVars, userVars, accessVars, api, contents, sockets>>

\* BrandVoice.findById, before the try block; a malformed id is a CastError
FindBrandVoice(j) ==
    LET job == jobs[j]
    IN  /\ j \in 1..Len(jobs)
        /\ job.pc = "findBrandVoice"
        /\ IF job.brandVoice = "malformed"
           THEN Step(j, [At(job, "crashed", 0) EXCEPT
                            !.http = IF job.route = "start" THEN 500 ELSE @])
           ELSE Step(j, At(emitProcessStarted(job), "setProcessing", 0))
        /\ UNCHANGED <<agentVars, userVars, accessVars, api, articles, contents, sockets>>

(***************************************************************************)
(* ProcessService.startProcessing: one action per await                    *)
(***************************************************************************)
\* try { await Article.findByIdAndUpdate(articleId, { status: 'processing' })
SetProcessing(j) ==
    LET job == jobs[j]
    IN  /\ j \in 1..Len(jobs)
        /\ job.pc = "setProcessing"
        /\ articles' = SetStatus(job.article, "processing")
        /\ Step(j, EnterResearch(job))
        /\ UNCHANGED <<agentVars, userVars, accessVars, api, contents, sockets>>

\* runResearcher returns
Research(j) ==
    LET job == jobs[j]
    IN  /\ j \in 1..Len(jobs)
        /\ job.pc = "research"
        /\ Step(j, EnterDetection(Log(job, AgentStatus("researcher", "completed"))))
        /\ UNCHANGED <<agentVars, userVars, accessVars, api, articles, contents, sockets>>

\* runFakeNewsDetection returns
Detect(j) ==
    LET job == jobs[j]
    IN  /\ j \in 1..Len(jobs)
        /\ job.pc = "detect"
        /\ \E env \in ProcEnvs :
            LET d == runFakeNewsDetection(env, job.content)
            IN  Step(j, [At(job, "saveDetection", 0) EXCEPT !.detection =
                    [analyzed |-> TRUE, hasScore |-> d.hasAScore,
                     score |-> d.aScore, status |-> d.aStatus]])
        /\ UNCHANGED <<agentVars, userVars, accessVars, api, articles, contents, sockets>>

\* Article.findByIdAndUpdate(articleId, { fakeNewsDetection })
SaveDetection(j) ==
    LET job == jobs[j]
    IN  /\ j \in 1..Len(jobs)
        /\ job.pc = "saveDetection"
        /\ articles' = IF Exists(job.article)
                       THEN [articles EXCEPT ![job.article].fakeNewsDetection = job.detection]
                       ELSE articles
        /\ Step(j, EnterReformat(Log(job, AgentStatus("factChecker", "completed"))))
        /\ UNCHANGED <<agentVars, userVars, accessVars, api, contents, sockets>>

\* runReformatter returns for platforms[i]
Reformat(j) ==
    LET job == jobs[j]
    IN  /\ j \in 1..Len(jobs)
        /\ job.pc = "reformat"
        /\ Step(j, ReformatStep([job EXCEPT !.results = Append(@, job.platforms[job.i])],
                                job.i + 1))
        /\ UNCHANGED <<agentVars, userVars, accessVars, api, articles, contents, sockets>>

\* ReformattedContent.findOneAndUpdate(..., { upsert: true }) for results[i]
SaveContent(j) ==
    LET job == jobs[j]
    IN  /\ j \in 1..Len(jobs)
        /\ job.pc = "saveContent"
        /\ contents' = Upsert(job.article, job.results[job.i], j)
        /\ Step(j, SaveStep(job, job.i + 1))
        /\ UNCHANGED <<agentVars, userVars, accessVars, api, articles, sockets>>

\* runFactChecker returns for results[i]
FactCheck(j) ==
    LET job == jobs[j]
    IN  /\ j \in 1..Len(jobs)
        /\ job.pc = "factCheck"
        /\ Step(j, At(job, "saveFactCheck", job.i))
        /\ UNCHANGED <<agentVars, userVars, accessVars, api, articles, contents, sockets>>

\* ReformattedContent.findOneAndUpdate(..., { factCheck }) for results[i]
SaveFactCheck(j) ==
    LET job == jobs[j]
    IN  /\ j \in 1..Len(jobs)
        /\ job.pc = "saveFactCheck"
        /\ contents' = UpdateFactCheck(job.article, job.results[job.i], j)
        /\ Step(j, FactCheckStep(job, job.i + 1))
        /\ UNCHANGED <<agentVars, userVars, accessVars, api, articles, sockets>>

\* runSEOOptimizer returns
OptimizeSEO(j) ==
    LET job == jobs[j]
    IN  /\ j \in 1..Len(jobs)
        /\ job.pc = "optimizeSEO"
        /\ Step(j, At(job, "saveSEO", 0))
        /\ UNCHANGED <<agentVars, userVars, accessVars, api, articles, contents, sockets>>

\* ReformattedContent.findOneAndUpdate(..., { seo })
SaveSEO(j) ==
    LET job == jobs[j]
    IN  /\ j \in 1..Len(jobs)
        /\ job.pc = "saveSEO"
        /\ contents' = UpdateSEO(job.article, j)
        /\ Step(j, At(Log(job, AgentStatus("seoOptimizer", "completed")), "setCompleted", 0))
        /\ UNCHANGED <<agentVars, userVars, accessVars, api, articles, sockets>>

emitProcessCompleted(j) ==
    Log(Log(j, ProcessEvent("process:update", "completed")),
        ProcessEvent("process:completed", ""))

\* await Article.findByIdAndUpdate(articleId, { status: 'completed' })
SetCompleted(j) ==
    LET job == jobs[j]
    IN  /\ j \in 1..Len(jobs)
        /\ job.pc = "setCompleted"
        /\ articles' = SetStatus(job.article, "completed")
        /\ Step(j, [At(emitProcessCompleted(job), "completed", 0) EXCEPT
                       !.http = IF job.route = "start" THEN 200 ELSE @])
        /\ UNCHANGED <<agentVars, userVars, accessVars, api, contents, sockets>>

\* positions that await the database
RouteAwaits == {"findArticle", "saveStatus"}
TryAwaits == {"setProcessing", "saveDetection", "saveContent", "saveFactCheck",
              "saveSEO", "setCompleted"}

\* where control goes when the awaited database call rejects
OnDbError(job) ==
    IF job.pc \in RouteAwaits
    THEN [At(job, "rejected", 0) EXCEPT !.http = 500]
    ELSE IF job.pc \in TryAwaits
    THEN At(job, "setFailed", 0)
    ELSE [At(job, "crashed", 0) EXCEPT !.http = IF job.route = "start" THEN 500 ELSE @]

\* an awaited database call rejects
DbError(j) ==
    /\ j \in 1..Len(jobs)
    /\ jobs[j].pc \in RouteAwaits \cup TryAwaits \cup {"findBrandVoice", "setFailed"}
    /\ Step(j, OnDbError(jobs[j]))
    /\ UNCHANGED <<agentVars, userVars, accessVars, api, articles, contents, sockets>>

\* mutant: the catch block also removes what the run has written
SetFailedRollsBack(j) ==
    LET job == jobs[j]
    IN  /\ j \in 1..Len(jobs)
        /\ job.pc = "setFailed"
        /\ articles' = [SetStatus(job.article, "failed") EXCEPT
                            ![job.article].fakeNewsDetection = NoDetection]
        /\ contents' = SelectSeq(contents, LAMBDA c : c.writer # j)
        /\ Step(j, [At(Log(job, ProcessEvent("process:failed", "")), "failed", 0) EXCEPT
                       !.http = IF job.route = "start" THEN 500 ELSE @])
        /\ UNCHANGED <<agentVars, userVars, accessVars, api, sockets>>

\* catch: await Article.findByIdAndUpdate(articleId, { status: 'failed' }),
\* emitProcessFailed, throw error
SetFailed(j) ==
    LET job == jobs[j]
    IN  /\ j \in 1..Len(jobs)
        /\ job.pc = "setFailed"
        /\ articles' = SetStatus(job.article, "failed")
        /\ Step(j, [At(Log(job, ProcessEvent("process:failed", "")), "failed", 0) EXCEPT
                       !.http = IF job.route = "start" THEN 500 ELSE @])
        /\ UNCHANGED <<agentVars, userVars, accessVars, api, contents, sockets>>

(***************************************************************************)
(* socketService: io.use and io.on('connection')                           *)
(***************************************************************************)
\* the user id the connection is filed under
SocketUserId(client, announced) == announced

\* a client opens a connection and announces a user id in the handshake query
Connect(client, announced) ==
    /\ Cardinality(sockets) < MaxSockets
    /\ sockets' = sockets \cup
          {[client |-> client, userId |-> SocketUserId(client, announced)]}
    /\ UNCHANGED <<agentVars, userVars, accessVars, api, articles, contents, jobs, delivered>>

Disconnect(s) ==
    /\ s \in sockets
    /\ sockets' = sockets \ {s}
    /\ UNCHANGED <<agentVars, userVars, accessVars, api, articles, contents, jobs, delivered>>

(***************************************************************************)
(* Routes served in one step: articles, results, distribution, brand       *)
(* voices, job status                                                      *)
(***************************************************************************)
MaxVoices == 1

Roles == {"admin", "editor", "viewer"}

\* a request without a valid bearer token
NoUser == "nobody"
Tokens == Users \cup {NoUser}

\* the text a PUT /api/articles/:id body carries
EditTexts == {Text({}, {}, {"balanced"})}

Answer(route, user, target, code, emitted, status) ==
    [route |-> route, user |-> user, target |-> target, code |-> code,
     emitted |-> emitted, status |-> status]

NoAnswer == Answer("none", NoUser, 0, 0, FALSE, Absent)

\* authenticate: 0 stands for next()
authenticate(token) == IF token = NoUser THEN 401 ELSE 0

\* mutant: every authenticated user passes
authorizeAnyRole(allowed, reqUser) ==
    IF reqUser = NoUser THEN 401 ELSE 0

\* authorize(...roles): 0 stands for next()
authorize(allowed, reqUser) ==
    IF reqUser = NoUser THEN 401
    ELSE IF roles[reqUser] \notin allowed THEN 403
    ELSE 0

\* the middleware chain authenticate, authorize(...roles)
Guard(allowed, token) ==
    IF authenticate(token) # 0 THEN authenticate(token) ELSE authorize(allowed, token)

\* mutant: the filter matches on _id alone
FindOwnedById(a, user) == Exists(a)

\* Article.findOne({ _id, uploadedBy: req.user.id })
FindOwned(a, user) == Exists(a) /\ articles[a].owner = user

\* Article.findById followed by the uploadedBy comparison: 404, 403 or 0
OwnerCheck(a, user) ==
    IF ~Exists(a) THEN 404
    ELSE IF articles[a].owner # user THEN 403
    ELSE 0

\* GET /api/articles/:id
GetArticle(token, a) ==
    LET code == IF authenticate(token) # 0 THEN 401
                ELSE IF FindOwned(a, token) THEN 200 ELSE 404
    IN  /\ answer' = Answer("getArticle", token, a, code, FALSE, Absent)
        /\ UNCHANGED <<agentVars, userVars, procVars, roles, voices, api>>

\* PUT /api/articles/:id
UpdateArticle(token, a, text) ==
    LET gate == Guard({"admin", "editor"}, token)
        code == IF gate # 0 THEN gate ELSE IF FindOwned(a, token) THEN 200 ELSE 404
    IN  /\ articles' = IF code = 200
                       THEN [articles EXCEPT ![a].content = text]
                       ELSE articles
        /\ answer' = Answer("updateArticle", token, a, code, FALSE, Absent)
        /\ UNCHANGED <<agentVars, userVars, contents, jobs, sockets, delivered, roles, voices, api>>

\* DELETE /api/articles/:id
DeleteArticle(token, a) ==
    LET gate == Guard({"admin"}, token)
        code == IF gate # 0 THEN gate ELSE IF FindOwned(a, token) THEN 200 ELSE 404
    IN  /\ articles' = IF code = 200
                       THEN [articles EXCEPT ![a].status = "deleted"]
                       ELSE articles
        /\ contents' = IF code = 200
                       THEN SelectSeq(contents, LAMBDA c : c.articleId # a)
                       ELSE contents
        /\ answer' = Answer("deleteArticle", token, a, code, FALSE, Absent)
        /\ UNCHANGED <<agentVars, userVars, jobs, sockets, delivered, roles, voices, api>>

\* GET /api/process/results/:articleId
GetResults(token, a) ==
    LET code == IF authenticate(token) # 0 THEN 401
                ELSE IF OwnerCheck(a, token) # 0 THEN OwnerCheck(a, token) ELSE 200
    IN  /\ answer' = Answer("getResults", token, a, code, FALSE, Absent)
        /\ UNCHANGED <<agentVars, userVars, procVars, roles, voices, api>>

\* io.to(userId).emit of DistributionService
Distributed(code, user) ==
    IF code = 200
    THEN delivered \cup {<<s.client, user>> : s \in Room(user)}
    ELSE delivered

\* POST /api/distribute with an articleId
DistributeArticle(token, a) ==
    LET code == IF authenticate(token) # 0 THEN 401
                ELSE IF OwnerCheck(a, token) # 0 THEN OwnerCheck(a, token) ELSE 200
    IN  /\ answer' = Answer("distributeArticle", token, a, code, code = 200, Absent)
        /\ delivered' = Distributed(code, token)
        /\ UNCHANGED <<agentVars, userVars, articles, contents, jobs, sockets, roles, voices, api>>

\* POST /api/distribute with a contentId (k: position of the document)
DistributeContent(token, k) ==
    LET found == k \in 1..Len(contents)
        a == IF found THEN contents[k].articleId ELSE 0
        code == IF authenticate(token) # 0 THEN 401
                ELSE IF ~found THEN 404
                ELSE IF OwnerCheck(a, token) # 0 THEN OwnerCheck(a, token) ELSE 200
    IN  /\ answer' = Answer("distributeContent", token, a, code, code = 200, Absent)
        /\ delivered' = Distributed(code, token)
        /\ UNCHANGED <<agentVars, userVars, articles, contents, jobs, sockets, roles, voices, api>>

\* GET /api/process/status/:jobId
GetStatus(token, j) ==
    LET code == IF authenticate(token) # 0 THEN 401 ELSE 200
    IN  /\ answer' = Answer("getStatus", token, j, code, FALSE,
                              IF code = 200 THEN "processing" ELSE Absent)
        /\ UNCHANGED <<agentVars, userVars, procVars, roles, voices, api>>

VoiceIds == 1..MaxVoices

\* mutant: the filter matches on _id alone
FindVoiceById(v, user) ==
    v \in 1..Len(voices) /\ ~voices[v].deleted

\* BrandVoice.findOne({ _id, createdBy: req.user.id })
FindVoice(v, user) ==
    v \in 1..Len(voices) /\ ~voices[v].deleted /\ voices[v].createdBy = user

\* POST /api/brand-voices and POST /api/brand-voices/templates
CreateBrandVoice(token, isDefault) ==
    LET gate == Guard({"admin", "editor"}, token)
        code == IF gate # 0 THEN gate ELSE 201
    IN  /\ code = 201 => Len(voices) < MaxVoices
        /\ voices' = IF code = 201
                     THEN Append(voices, [createdBy |-> token, isDefault |-> isDefault,
                                          deleted |-> FALSE])
                     ELSE voices
        /\ answer' = Answer("createBrandVoice", token, Len(voices) + 1, code, FALSE, Absent)
        /\ UNCHANGED <<agentVars, userVars, procVars, roles, api>>

\* PUT /api/brand-voices/:id
UpdateBrandVoice(token, v, isDefault) ==
    LET gate == Guard({"admin", "editor"}, token)
        code == IF gate # 0 THEN gate ELSE IF FindVoice(v, token) THEN 200 ELSE 404
    IN  /\ voices' = IF code = 200
                     THEN [voices EXCEPT ![v].isDefault = isDefault]
                     ELSE voices
        /\ answer' = Answer("updateBrandVoice", token, v, code, FALSE, Absent)
        /\ UNCHANGED <<agentVars, userVars, procVars, roles, api>>

\* DELETE /api/brand-voices/:id (default voices are not deleted)
DeleteBrandVoice(token, v) ==
    LET gate == Guard({"admin"}, token)
        code == IF gate # 0 THEN gate
                ELSE IF FindVoice(v, token) /\ ~voices[v].isDefault THEN 200 ELSE 404
    IN  /\ voices' = IF code = 200
                     THEN [voices EXCEPT ![v].deleted = TRUE]
                     ELSE voices
        /\ answer' = Answer("deleteBrandVoice", token, v, code, FALSE, Absent)
        /\ UNCHANGED <<agentVars, userVars, procVars, roles, api>>

(***************************************************************************)
(* Spec                                                                    *)
(***************************************************************************)
InitProc ==
    /\ articles = [a \in ArticleIds |-> NoArticle]
    /\ contents = <<>>
    /\ jobs = <<>>
    /\ sockets = {}
    /\ delivered = {}

AgentIdle ==
    /\ call = [op |-> "none", env |-> [mode |-> "nokey", content |-> PlainObject("empty")],
               text |-> PlainText, reformatted |-> PlainText]
    /\ reply = NoReply
    /\ result = NoResult

\* every registered user is an editor; no brand voice, no request served yet
AccessIdle ==
    /\ roles = [u \in Users |-> "editor"]
    /\ voices = <<>>
    /\ answer = NoAnswer

Init == InitProc /\ AgentIdle /\ AccessIdle /\ api = <<>> /\ UsersIdle

JobStep(j) ==
    \/ FindArticle(j)
    \/ SaveStatus(j)
    \/ FindBrandVoice(j)
    \/ SetProcessing(j)
    \/ Research(j)
    \/ Detect(j)
    \/ SaveDetection(j)
    \/ Reformat(j)
    \/ SaveContent(j)
    \/ FactCheck(j)
    \/ SaveFactCheck(j)
    \/ OptimizeSEO(j)
    \/ SaveSEO(j)
    \/ SetCompleted(j)
    \/ DbError(j)
    \/ SetFailed(j)

NextProc ==
    \/ \E u \in Uploaders, t \in ArticleTexts : Upload(u, t)
    \/ \E u \in Users, a \in ArticleIds, pl \in PlatformLists, bv \in BrandVoiceIds :
          ProcessStartRequest(u, a, pl, bv)
    \/ \E u \in Users, a \in ArticleIds, pl \in PlatformLists :
             ArticleProcessRequest(u, a, pl)
    \/ \E j \in JobIds : JobStep(j)

Next == NextProc

\* the pipeline and the document store; no socket is connected
Spec == Init /\ [][Next]_vars

\* the pipeline with socket connections coming and going
NextRelay ==
    \/ \E u \in Uploaders, t \in ArticleTexts : Upload(u, t)
    \/ /\ Len(jobs) < MaxRelayJobs
       /\ \E u \in Users, a \in ArticleIds, pl \in PlatformLists, bv \in BrandVoiceIds :
             ProcessStartRequest(u, a, pl, bv)
    \/ /\ Len(jobs) < MaxRelayJobs
       /\ \E u \in Users, a \in ArticleIds, pl \in PlatformLists :
             ArticleProcessRequest(u, a, pl)
    \/ \E j \in JobIds : JobStep(j)
    \/ \E c \in Users, u \in Users : Connect(c, u)
    \/ \E c \in Users, u \in Users : Disconnect([client |-> c, userId |-> u])

SpecRelay == Init /\ [][NextRelay]_vars

\* the owner may edit or delete, the other user is an admin or a viewer
AccessRoles ==
    {[u \in Users |-> IF u \in Uploaders THEN "editor" ELSE "admin"],
     [u \in Users |-> IF u \in Uploaders THEN "admin" ELSE "viewer"]}

\* the article, results, distribution and status routes together with one
\* processing run
InitAccess ==
    /\ InitProc
    /\ AgentIdle
    /\ roles \in AccessRoles
    /\ voices = <<>>
    /\ answer = NoAnswer
    /\ api = <<>>
    /\ UsersIdle

ContentIds == 1..(MaxPlatforms + 1)

NextAccess ==
    \/ \E u \in Uploaders, t \in ArticleTexts : Upload(u, t)
    \/ /\ Len(jobs) < MaxRelayJobs
       /\ \E u \in Users, a \in ArticleIds, pl \in PlatformLists, bv \in BrandVoiceIds :
             ProcessStartRequest(u, a, pl, bv)
    \/ /\ Len(jobs) < MaxRelayJobs
       /\ \E u \in Users, a \in ArticleIds, pl \in PlatformLists :
             ArticleProcessRequest(u, a, pl)
    \/ \E j \in JobIds : JobStep(j)
    \/ \E t \in Tokens, a \in ArticleIds : GetArticle(t, a)
    \/ \E t \in Tokens, a \in ArticleIds, x \in EditTexts : UpdateArticle(t, a, x)
    \/ \E t \in Tokens, a \in ArticleIds : DeleteArticle(t, a)
    \/ \E t \in Tokens, a \in ArticleIds : GetResults(t, a)
    \/ \E t \in Tokens, a \in ArticleIds : DistributeArticle(t, a)
    \/ \E t \in Tokens, k \in ContentIds : DistributeContent(t, k)
    \/ \E t \in Tokens, j \in JobIds : GetStatus(t, j)

SpecAccess == InitAccess /\ [][NextAccess]_vars

\* users of every role; the routes guarded by authorize
InitRoles ==
    /\ InitProc
    /\ AgentIdle
    /\ roles \in [Users -> Roles]
    /\ voices = <<>>
    /\ answer = NoAnswer
    /\ api = <<>>
    /\ UsersIdle

NextRoles ==
    \/ \E u \in Users, t \in ArticleTexts : Upload(u, t)
    \/ \E t \in Tokens, a \in ArticleIds, x \in EditTexts : UpdateArticle(t, a, x)
    \/ \E t \in Tokens, a \in ArticleIds : DeleteArticle(t, a)
    \/ \E t \in Tokens, d \in BOOLEAN : CreateBrandVoice(t, d)
    \/ \E t \in Tokens, v \in VoiceIds, d \in BOOLEAN : UpdateBrandVoice(t, v, d)
    \/ \E t \in Tokens, v \in VoiceIds : DeleteBrandVoice(t, v)

SpecRoles == InitRoles /\ [][NextRoles]_vars

(***************************************************************************)
(* Client ApiService: the response interceptor and refreshToken            *)
(***************************************************************************)
MaxClientRequests == 8

\* what localStorage holds as refreshToken: nothing, a token the server
\* accepts, or one it rejects (expired, or signed with another secret)
StoredTokens == {"none", "valid", "invalid"}

\* number of requests the client has issued after the first one
Issued == api.refreshes + api.retries

\* the server's answers to a request of the given kind
ServerCodes(kind) ==
    IF kind = "refresh"
    THEN IF api.refreshToken = "invalid" THEN {401} ELSE {200, 500}
    ELSE IF api.refreshes = 0 THEN {200, 401, 500}
    ELSE IF api.userExists THEN {200, 500}
    ELSE {401}

\* the response of the request in flight arrives; a 401 enters the
\* interceptor's refresh branch, any other error is rejected as it is
Respond(code) ==
    /\ api.pc = "sent"
    /\ code \in ServerCodes(api.kind)
    /\ api' = IF code = 401
              THEN [api EXCEPT !.pc = "unauthorized"]
              ELSE [api EXCEPT !.pc = "settled", !.ok = (code = 200)]
    /\ UNCHANGED <<agentVars, userVars, procVars, accessVars>>

\* interceptor: await this.refreshToken() with a stored token: POST
\* /auth/refresh through the same axios instance
RefreshToken ==
    /\ api.pc = "unauthorized"
    /\ api.refreshToken # "none"
    /\ Issued < MaxClientRequests
    /\ api' = [api EXCEPT !.pc = "sent", !.kind = "refresh",
                          !.stack = Append(@, api.kind),
                          !.refreshes = @ + 1]
    /\ UNCHANGED <<agentVars, userVars, procVars, accessVars>>

\* refreshToken() returns false at once: redirect to /login, reject
NoRefreshToken ==
    /\ api.pc = "unauthorized"
    /\ api.refreshToken = "none"
    /\ api' = [api EXCEPT !.pc = "settled", !.ok = FALSE, !.redirected = TRUE]
    /\ UNCHANGED <<agentVars, userVars, procVars, accessVars>>

\* the refresh request resolved: the waiting interceptor re-sends the
\* request it was handling and returns that request's promise
Retry ==
    /\ api.pc = "settled"
    /\ api.stack # << >>
    /\ api.ok
    /\ Issued < MaxClientRequests
    /\ LET waiting == api.stack[Len(api.stack)]
       IN  api' = [api EXCEPT !.pc = "sent", !.kind = waiting,
                              !.stack = SubSeq(@, 1, Len(@) - 1),
                              !.retries = IF waiting = "request" THEN @ + 1 ELSE @,
                              !.refreshes = IF waiting = "refresh" THEN @ + 1 ELSE @]
    /\ UNCHANGED <<agentVars, userVars, procVars, accessVars>>

\* the refresh request rejected: catch { this.logout(); return false },
\* the waiting interceptor redirects to /login and rejects its own request
RefreshFailed ==
    /\ api.pc = "settled"
    /\ api.stack # << >>
    /\ ~api.ok
    /\ api' = [api EXCEPT !.kind = api.stack[Len(api.stack)],
                          !.stack = SubSeq(@, 1, Len(@) - 1),
                          !.refreshToken = "none",
                          !.redirected = TRUE]
    /\ UNCHANGED <<agentVars, userVars, procVars, accessVars>>

\* the promise of the original request settles: handling has terminated
Finish ==
    /\ api.pc = "settled"
    /\ api.stack = << >>
    /\ api' = [api EXCEPT !.pc = "done"]
    /\ UNCHANGED <<agentVars, userVars, procVars, accessVars>>

\* one request has been sent through ApiService
InitClient ==
    /\ InitProc
    /\ AgentIdle
    /\ AccessIdle
    /\ UsersIdle
    /\ api \in [pc : {"sent"}, kind : {"request"}, stack : {<< >>},
                refreshes : {0}, retries : {0}, ok : {FALSE}, redirected : {FALSE},
                refreshToken : StoredTokens, userExists : BOOLEAN]

NextClient ==
    \/ \E code \in {200, 401, 500} : Respond(code)
    \/ RefreshToken
    \/ NoRefreshToken
    \/ Retry
    \/ RefreshFailed
    \/ Finish

SpecClient == InitClient /\ [][NextClient]_vars

\* the agent operations alone, each applied to one drawn call
SpecAgent == InitAgent /\ [][NextAgent]_vars

(***************************************************************************)
(* Properties                                                              *)
(***************************************************************************)
Jobs == 1..Len(jobs)

HasEvent(job, name) == \E k \in 1..Len(job.log) : job.log[k][1] = name

\* startProcessing was called for the job and has rejected
EndedInFailure(job) == job.pc \in {"failed", "crashed"}

\* no other request concerns the article of job j
OnlyJobOnArticle(j) == \A k \in Jobs : k # j => jobs[k].article # jobs[j].article

\* C1: every run of startProcessing that has thrown has emitted process:failed,
\* and (no other request touching the article) has left the article 'failed'.
C1_FailureFlipsStatus ==
    \A j \in Jobs :
        EndedInFailure(jobs[j]) =>
            /\ HasEvent(jobs[j], "process:failed")
            /\ OnlyJobOnArticle(j) /\ Exists(jobs[j].article)
                  => articles[jobs[j].article].status = "failed"

IsPrefix(s, t) == Len(s) <= Len(t) /\ \A k \in 1..Len(s) : s[k] = t[k]

\* the events and agent calls of a whole run over the platform list pl, phase
\* after phase, platform after platform
ExpectedLog(pl) ==
    LET n == Len(pl)
        formatting == [k \in 1..(2 * n) |->
                          IF k % 2 = 1
                          THEN <<"process:update", "Formatting", pl[(k + 1) \div 2]>>
                          ELSE <<"call", "runReformatter", pl[k \div 2]>>]
        checking == [k \in 1..n |-> <<"call", "runFactChecker", pl[k]>>]
        optimizing == IF \E k \in 1..n : pl[k] = "seo"
                      THEN << <<"call", "runSEOOptimizer", "seo">> >> ELSE << >>
    IN  << <<"process:started", "", "">>, <<"process:update", "Initializing", "">>,
           <<"agent:status", "researcher", "running">>,
           <<"call", "runResearcher", "">>,
           <<"agent:status", "researcher", "completed">>,
           <<"agent:status", "factChecker", "running">>,
           <<"process:update", "Analyzing", "">>,
           <<"call", "runFakeNewsDetection", "">>,
           <<"agent:status", "factChecker", "completed">>,
           <<"agent:status", "reformatter", "running">> >>
        \o formatting
        \o << <<"agent:status", "reformatter", "completed">>,
              <<"agent:status", "factChecker", "running">> >>
        \o checking
        \o << <<"agent:status", "factChecker", "completed">>,
              <<"agent:status", "seoOptimizer", "running">> >>
        \o optimizing
        \o << <<"agent:status", "seoOptimizer", "completed">>,
              <<"process:update", "completed", "">>,
              <<"process:completed", "", "">> >>

\* the log of a run without the process:failed that may end it
BeforeFailure(log) ==
    IF Len(log) > 0 /\ log[Len(log)][1] = "process:failed"
    THEN SubSeq(log, 1, Len(log) - 1) ELSE log

\* C2: the events and agent calls of every run form a prefix of the strictly
\* sequential order research, fake-news detection, reformat, fact-check, SEO,
\* each phase completed before the next is running, platforms in list order.
C2_PhasesSequential ==
    \A j \in Jobs : IsPrefix(BeforeFailure(jobs[j].log), ExpectedLog(jobs[j].platforms))

C2_Witness ==
    \E j \in Jobs : jobs[j].pc = "completed" /\ Len(jobs[j].platforms) = 2

\* C3: the mock scorer's score is min(cap, max(0, min(100, 90 - 25n + b))) and
\* its status is the bucket of that score, for every combination of matches.
C3_MockScoreFormula ==
    reply.response.kind = "fakenews" =>
        LET t == call.text
            n == Cardinality(t.flags)
            b == (IF "citations" \in t.cred THEN 10 ELSE 0)
               + (IF "balanced" \in t.cred THEN 5 ELSE 0)
               + (IF "specific" \in t.cred THEN 5 ELSE 0)
            critical == "emotionalManipulation" \in t.flags \/ "conspiracy" \in t.flags
            cap == IF critical THEN 39 ELSE IF n >= 2 THEN 49 ELSE 100
            score == Min(cap, Max(0, Min(100, 90 - 25 * n + b)))
            bucket == IF score >= 85 THEN "authentic"
                      ELSE IF score >= 70 THEN "mixed"
                      ELSE IF score >= 50 THEN "suspicious"
                      ELSE IF score >= 25 THEN "likely-fake"
                      ELSE "verified-fake"
        IN  /\ reply.response.hasAScore
            /\ reply.response.aScore = score
            /\ reply.response.aStatus = bucket

C3_Witness ==
    /\ reply.response.kind = "fakenews"
    /\ call.text.flags = {"conspiracy"}
    /\ call.text.cred = {"citations", "balanced"}
    /\ reply.response.aScore = 39
    /\ reply.response.aStatus = "likely-fake"

\* C4: the fakeNewsDetection stored in an article carries a numeric
\* authenticityScore within 0..100.
C4_StoredScoreInRange ==
    \A a \in ArticleIds :
        articles[a].fakeNewsDetection.analyzed =>
            /\ articles[a].fakeNewsDetection.hasScore
            /\ articles[a].fakeNewsDetection.score \in 0..100

NoKey == [mode |-> "nokey", content |-> PlainObject("empty")]

\* the messages of the served call
CallMessages ==
    Messages(call.op, IF call.op = "runFactChecker"
                      THEN Concat(call.text, call.reformatted) ELSE call.text)

\* C5: when the API call throws, callAPI does not propagate the error and
\* returns what the no-API-key path returns for the same messages.
C5_ThrowFallsBackToMock ==
    (call.env.mode = "throws" /\ result # NoResult) =>
        /\ ~reply.threw
        /\ result.source # "thrown"
        /\ reply.response = callAPI(NoKey, CallMessages).response

C5_Witness ==
    /\ call.env.mode = "throws"
    /\ call.op = "runSEOOptimizer"
    /\ result.source = "parsed"
    /\ reply.response.kind = "seo"

\* C6: an event emitted for user U reaches only connections of client U.
C6_EventsOnlyToOwner ==
    \A d \in delivered : d[1] = d[2]

\* C7: a request whose platforms fail the validator starts no run and writes
\* no record.
C7_InvalidRequestRejected ==
    \A j \in Jobs :
        jobs[j].invalid =>
            /\ jobs[j].log = << >>
            /\ \A k \in 1..Len(contents) : contents[k].writer # j

\* C8: at most one ReformattedContent document per (articleId, platform).
C8_OneRecordPerPlatform ==
    \A k \in 1..Len(contents), m \in 1..Len(contents) :
        (contents[k].articleId = contents[m].articleId
            /\ contents[k].platform = contents[m].platform) => k = m

\* a second run has replaced the record the first run had written
C8_Witness ==
    /\ Len(jobs) = 2
    /\ jobs[1].pc = "completed"
    /\ jobs[2].pc = "completed"
    /\ jobs[1].platforms = <<"seo">>
    /\ jobs[2].platforms = <<"seo", "linkedin">>
    /\ \E k \in 1..Len(contents) : contents[k].platform = "seo" /\ contents[k].writer = 2
    /\ Len(contents) = 2

\* C9: the failure path (entering the catch block and running it) changes
\* nothing but the article's status.
C9_FailureKeepsWrites ==
    [][\A j \in Jobs :
          /\ (jobs[j].pc \in TryAwaits /\ jobs'[j].pc = "setFailed")
                => (contents' = contents /\ articles' = articles)
          /\ (jobs[j].pc = "setFailed" /\ jobs'[j].pc # "setFailed")
                => /\ contents' = contents
                   /\ \A a \in ArticleIds :
                        articles'[a] = [articles[a] EXCEPT !.status = articles'[a].status]
      ]_vars

\* a run failed after its earlier phases had written, and the writes are there
C9_Witness ==
    \E j \in Jobs :
        /\ jobs[j].pc = "failed"
        /\ articles[jobs[j].article].status = "failed"
        /\ articles[jobs[j].article].fakeNewsDetection.analyzed
        /\ \E k \in 1..Len(contents) : contents[k].writer = j /\ contents[k].factCheck = j

\* C10: the verification status of every runFactChecker result follows from
\* its score: 90-100 verified, 60-89 needs_review, below 60 failed.
C10_StatusFollowsScore ==
    (call.op = "runFactChecker" /\ result.source \in {"parsed", "fallback"}
        /\ result.hasVScore) =>
        /\ result.hasVStatus
        /\ result.vScore >= 90 => (result.vStatus = "verified" /\ result.isVerified = "true")
        /\ (result.vScore >= 60 /\ result.vScore < 90)
              => (result.vStatus = "needs_review" /\ result.isVerified = "false")
        /\ result.vScore < 60 => (result.vStatus = "failed" /\ result.isVerified = "false")

\* Classification Criteria of the runFakeNewsDetection prompt
CriteriaStatus(score) ==
    IF score >= 80 THEN "authentic"
    ELSE IF score >= 60 THEN "mixed"
    ELSE IF score >= 40 THEN "suspicious"
    ELSE IF score >= 20 THEN "likely-fake"
    ELSE "verified-fake"

\* C11: a runFakeNewsDetection result produced without the language model
\* (mock scorer or error fallback) has the status the classification
\* criteria give for its score.
C11_ClassifiedByCriteria ==
    (/\ call.op = "runFakeNewsDetection"
     /\ result.source \in {"parsed", "fallback"}
     /\ (call.env.mode # "ok" \/ result.source = "fallback"))
        => result.aStatus = CriteriaStatus(result.aScore)

HasRecord(articleId, platform) == Matching(articleId, platform) # {}

\* C12: once a run started through POST /api/articles/:id/process has
\* completed, a ReformattedContent record exists for every platform the
\* request asked for.
C12_RequestedPlatformsWritten ==
    \A j \in Jobs :
        (jobs[j].route = "articles" /\ jobs[j].pc = "completed") =>
            \A k \in 1..Len(jobs[j].requested) :
                HasRecord(jobs[j].article, jobs[j].requested[k])

\* the run of job has passed its originalContent to runFactChecker
CalledFactChecker(job) ==
    \E k \in 1..Len(job.log) : job.log[k][1] = "call" /\ job.log[k][2] = "runFactChecker"

\* C13: the text runFactChecker receives as the original is the article's
\* originalContent, also after the article's content has been edited.
C13_CheckedAgainstOriginal ==
    \A j \in Jobs :
        CalledFactChecker(jobs[j]) =>
            jobs[j].content = articles[jobs[j].article].originalContent

\* C14: a status request answered after the named run has emitted
\* process:completed (process:failed) reports 'completed' ('failed').
C14_StatusReportsJob ==
    [][\A j \in Jobs :
          (/\ answer' # answer
           /\ answer'.route = "getStatus"
           /\ answer'.code = 200
           /\ answer'.target = j)
          => /\ HasEvent(jobs[j], "process:completed") => answer'.status = "completed"
             /\ HasEvent(jobs[j], "process:failed") => answer'.status = "failed"
      ]_vars

\* the roles authorize lists on each guarded route
AllowedRoles(route) ==
    IF route \in {"deleteArticle", "deleteBrandVoice"}
    THEN {"admin"}
    ELSE {"admin", "editor"}

GuardedRoutes == {"updateArticle", "deleteArticle", "createBrandVoice",
                  "updateBrandVoice", "deleteBrandVoice"}

\* the role of the user whose request has just been answered
AnswerRole == IF answer'.user \in Users THEN roles[answer'.user] ELSE "none"

\* C15: a guarded route answers 401 without a user, 403 to a role that is not
\* listed, and lets every listed role through; an article's content or a brand
\* voice changes only at the request of an admin or editor, and an article or
\* brand voice is deleted only at the request of an admin.
C15_RolesGuardWrites ==
    [][/\ (answer' # answer /\ answer'.route \in GuardedRoutes) =>
            /\ answer'.user = NoUser => answer'.code = 401
            /\ (answer'.user # NoUser /\ AnswerRole \notin AllowedRoles(answer'.route))
                  => answer'.code = 403
            /\ (answer'.user # NoUser /\ AnswerRole \in AllowedRoles(answer'.route))
                  => answer'.code \notin {401, 403}
       /\ \A a \in ArticleIds :
            /\ (Exists(a) /\ articles'[a].content # articles[a].content)
                  => AnswerRole \in {"admin", "editor"}
            /\ (Exists(a) /\ articles'[a].status = "deleted") => AnswerRole = "admin"
       /\ \A v \in 1..Len(voices) :
            /\ voices'[v].isDefault # voices[v].isDefault => AnswerRole \in {"admin", "editor"}
            /\ voices'[v].deleted # voices[v].deleted => AnswerRole = "admin"
       /\ Len(voices') > Len(voices) => AnswerRole \in {"admin", "editor"}
      ]_vars

\* an editor asked to delete an article of their own and was refused
C15_Witness ==
    /\ answer.route = "deleteArticle"
    /\ answer.code = 403
    /\ answer.user \in Users
    /\ roles[answer.user] = "editor"
    /\ FindOwned(answer.target, answer.user)

ArticleRoutes == {"getArticle", "updateArticle", "deleteArticle", "getResults",
                  "distributeArticle", "distributeContent"}

\* article a exists and was uploaded by somebody other than user
Foreign(a, user) == a \in ArticleIds /\ Exists(a) /\ articles[a].owner # user

\* C16: a request of a user on an existing article uploaded by another user
\* is answered 403 or 404 (a processing request: refused, with 403 or 404
\* unless the lookup itself failed), changes no article and no reformatted
\* content, and emits no event.
C16_ForeignArticleUntouched ==
    [][/\ (/\ answer' # answer
           /\ answer'.route \in ArticleRoutes
           /\ answer'.user \in Users
           /\ Foreign(answer'.target, answer'.user))
          => /\ answer'.code \in {403, 404}
             /\ ~answer'.emitted
             /\ articles' = articles
             /\ contents' = contents
             /\ delivered' = delivered
       /\ \A j \in Jobs :
            (/\ jobs'[j] # jobs[j]
             /\ jobs[j].pc = "findArticle"
             /\ Foreign(jobs[j].article, jobs[j].user))
            => /\ jobs'[j].pc = "rejected"
               /\ jobs'[j].http \in {403, 404, 500}
               /\ jobs'[j].http = 500 => jobs[j].pc \in RouteAwaits
               /\ jobs'[j].log = << >>
               /\ articles' = articles
               /\ contents' = contents
               /\ delivered' = delivered
      ]_vars

\* an admin asked to delete an article uploaded by another user: 404
C16_Witness ==
    /\ answer.route = "deleteArticle"
    /\ answer.code = 404
    /\ answer.user \in Users
    /\ roles[answer.user] = "admin"
    /\ Foreign(answer.target, answer.user)
    /\ \E j \in Jobs : jobs[j].pc = "rejected" /\ jobs[j].http = 403

\* startProcessing has been called for the job and has not yet settled
InFlight(job) ==
    job.pc \notin {"findArticle", "saveStatus", "rejected", "completed", "failed", "crashed"}

\* C17: no two processing runs are in flight for the same article.
C17_OneRunPerArticle ==
    \A j \in Jobs, k \in Jobs :
        (j # k /\ jobs[j].article = jobs[k].article
            /\ InFlight(jobs[j]) /\ InFlight(jobs[k])) => FALSE

StatusSteps == {<<"pending", "processing">>, <<"processing", "completed">>,
                <<"processing", "failed">>, <<"completed", "processing">>,
                <<"failed", "processing">>}

\* C18: the status of an article changes only along pending->processing,
\* processing->completed, processing->failed, completed/failed->processing.
C18_StatusLifecycle ==
    [][\A a \in ArticleIds :
          (Exists(a) /\ articles'[a].status # articles[a].status)
            => <<articles[a].status, articles'[a].status>> \in StatusSteps
      ]_vars

\* C19: when two or more red-flag patterns match, the mock scorer's status is
\* neither 'authentic' nor 'mixed', whatever the credibility bonus.
C19_TwoFlagsNeverCredible ==
    (reply.response.kind = "fakenews" /\ Cardinality(call.text.flags) >= 2)
        => reply.response.aStatus \notin {"authentic", "mixed"}

\* two non-critical flags with the full bonus: capped at 49, likely-fake
C19_Witness ==
    /\ reply.response.kind = "fakenews"
    /\ call.text.flags = {"clickbait", "exaggeration"}
    /\ call.text.cred = CrediblePatterns
    /\ reply.response.aScore = 49
    /\ reply.response.aStatus = "likely-fake"

\* C20: handling one request takes at most one token-refresh request and at
\* most one retry of the original request.
C20_OneRefreshOneRetry ==
    api.refreshes <= 1 /\ api.retries <= 1

(***************************************************************************)
(* DistributionService (services/distributionService.ts)                   *)
(***************************************************************************)
MaxPosts == 2

\* the cases of postToPlatform's switch
DistributionPlatforms ==
    {"linkedin", "twitter", "facebook", "instagram", "newsletter", "email"}

\* what a POST /api/distribute body can name: the isIn chain of the route is
\* never consulted, so any string reaches the service
PostPlatforms == DistributionPlatforms \cup {"tiktok"}

\* PostOptions, the position of the call and the events it has emitted;
\* accessToken: process.env.LINKEDIN_ACCESS_TOKEN is set
Post(op, userId, platform, accessToken, pc, events) ==
    [op |-> op, userId |-> userId, platform |-> platform,
     accessToken |-> accessToken, pc |-> pc, events |-> events]

\* this.io.to(options.userId).emit(name, ...)
EmitTo(p, name) == [p EXCEPT !.events = Append(@, name)]

\* only postToLinkedIn with an access token awaits a call that can reject
CanReject(p) == p.platform = "linkedin" /\ p.accessToken

\* the end of the try block: emit the success event and return the result
Returned(p) == [EmitTo(p, "distribution:completed") EXCEPT !.pc = "returned"]

\* mutant: the catch block rethrows without emitting
CaughtSilently(p) == [p EXCEPT !.pc = "thrown"]

\* the catch block: emit the failure event and rethrow
Caught(p) == [EmitTo(p, "distribution:failed") EXCEPT !.pc = "thrown"]

\* postToPlatform from its call to its first await: the started event, then
\* the switch; its default case throws into the catch block at once
CallPostToPlatform(userId, platform, accessToken) ==
    LET p == EmitTo(Post("postToPlatform", userId, platform, accessToken,
                         "handler", << >>), "distribution:started")
    IN  IF platform \in DistributionPlatforms THEN p ELSE Caught(p)

\* the sockets in the room of the call's user receive what it emits
PostStep(p, new) ==
    /\ posts' = IF p = 0 THEN Append(posts, new) ELSE [posts EXCEPT ![p] = new]
    /\ delivered' = delivered \cup {<<s.client, new.userId>> : s \in Room(new.userId)}
    /\ UNCHANGED <<agentVars, accessVars, api, articles, contents, jobs, sockets,
                   accounts, registrations, socialAccounts>>

PostToPlatform(userId, platform, accessToken) ==
    /\ Len(posts) < MaxPosts
    /\ PostStep(0, CallPostToPlatform(userId, platform, accessToken))

\* the awaited platform method resolves
HandlerReturns(p) ==
    /\ p \in 1..Len(posts)
    /\ posts[p].pc = "handler"
    /\ PostStep(p, Returned(posts[p]))

\* the awaited platform method rejects (axios.post of postToLinkedIn)
HandlerThrows(p) ==
    /\ p \in 1..Len(posts)
    /\ posts[p].pc = "handler"
    /\ CanReject(posts[p])
    /\ PostStep(p, Caught(posts[p]))

\* schedulePost: one scheduled event, no await
SchedulePost(userId, platform) ==
    /\ Len(posts) < MaxPosts
    /\ PostStep(0, Post("schedulePost", userId, platform, FALSE, "returned",
                        <<"distribution:scheduled">>))

InitDistribute ==
    /\ InitProc
    /\ AgentIdle
    /\ AccessIdle
    /\ api = <<>>
    /\ posts = <<>>
    /\ accounts = <<>>
    /\ registrations = <<>>
    /\ socialAccounts = <<>>

NextDistribute ==
    \/ \E u \in Users, pl \in PostPlatforms, t \in BOOLEAN : PostToPlatform(u, pl, t)
    \/ \E u \in Users, pl \in PostPlatforms : SchedulePost(u, pl)
    \/ \E p \in 1..MaxPosts : HandlerReturns(p)
    \/ \E p \in 1..MaxPosts : HandlerThrows(p)

\* an awaited platform method settles: it resolves or it rejects
Settles(p) == HandlerReturns(p) \/ HandlerThrows(p)

SpecDistribute ==
    InitDistribute /\ [][NextDistribute]_vars /\ \A p \in 1..MaxPosts : WF_vars(Settles(p))

PostCalls == {p \in 1..Len(posts) : posts[p].op = "postToPlatform"}

\* what a call of postToPlatform has emitted at each of its positions
PostEvents(pc) ==
    CASE pc = "handler" -> <<"distribution:started">>
      [] pc = "returned" -> <<"distribution:started", "distribution:completed">>
      [] pc = "thrown" -> <<"distribution:started", "distribution:failed">>

\* C21: every call of postToPlatform emits distribution:started first; while
\* its platform method is awaited it has emitted nothing else; it has emitted
\* distribution:completed, once, exactly when it returned and
\* distribution:failed, once, exactly when it threw; and every call
\* eventually returns or throws.
C21_StartedThenOneOutcome ==
    /\ [](\A p \in PostCalls : posts[p].events = PostEvents(posts[p].pc))
    /\ \A p \in 1..MaxPosts :
          (p \in PostCalls) ~> (p \in PostCalls /\ posts[p].pc \in {"returned", "thrown"})

\* one call returned and another threw out of its awaited platform method
C21_Witness ==
    /\ \E p \in PostCalls : posts[p].pc = "returned"
    /\ \E p \in PostCalls : posts[p].pc = "thrown" /\ posts[p].platform = "linkedin"

\* the stored voice a DELETE /api/brand-voices/:id names is a default voice
\* or was created by another user than the requester
Protected(v, user) ==
    /\ v \in 1..Len(voices)
    /\ ~voices[v].deleted
    /\ voices[v].isDefault \/ voices[v].createdBy # user

MaxRegistrations == 3

\* the email of a request body, as sent
Emails == {"a@x.io", "A@X.io", "b@x.io"}

\* lowercase: true of userSchema.email: applied to the value that is saved
\* and to the value a query filter is cast to
lowercase(email) == IF email = "A@X.io" THEN "a@x.io" ELSE email

\* one request: its body's email, its position in the handler, the status
\* code it answered or threw with, the message of the error it threw,
\* whether generateTokens ran, and the position of the document it created
Registration(email, pc, status, error, tokens, created) ==
    [email |-> email, pc |-> pc, status |-> status, error |-> error,
     tokens |-> tokens, created |-> created]

\* User.findOne({ email })
existingUser(email) == \E k \in 1..Len(accounts) : accounts[k].email = lowercase(email)

\* unique: true of userSchema.email: the insert of a stored email is rejected
DuplicateKey(email) == \E k \in 1..Len(accounts) : accounts[k].email = lowercase(email)

RegistrationStep(r, new) ==
    /\ registrations' = IF r = 0 THEN Append(registrations, new)
                        ELSE [registrations EXCEPT ![r] = new]
    /\ UNCHANGED <<agentVars, procVars, accessVars, api, posts, socialAccounts>>

\* the request arrives and the handler awaits User.findOne
Register(email) ==
    /\ Len(registrations) < MaxRegistrations
    /\ RegistrationStep(0, Registration(email, "findOne", 0, "", FALSE, 0))
    /\ UNCHANGED accounts

\* User.findOne resolves: throw createError(..., 400) or await User.create
FindExistingUser(r) ==
    /\ r \in 1..Len(registrations)
    /\ registrations[r].pc = "findOne"
    /\ RegistrationStep(r,
          IF existingUser(registrations[r].email)
          THEN [registrations[r] EXCEPT !.pc = "failed", !.status = 400,
                                        !.error = "Email already registered"]
          ELSE [registrations[r] EXCEPT !.pc = "create"])
    /\ UNCHANGED accounts

\* User.create settles: the insert is rejected by the unique index and the
\* handler throws that error (it carries no status code), or the document
\* is stored, generateTokens runs and the handler answers 201
CreateUser(r) ==
    /\ r \in 1..Len(registrations)
    /\ registrations[r].pc = "create"
    /\ IF DuplicateKey(registrations[r].email)
       THEN /\ RegistrationStep(r, [registrations[r] EXCEPT !.pc = "failed",
                                       !.error = "E11000 duplicate key error"])
            /\ UNCHANGED accounts
       ELSE /\ accounts' = Append(accounts, [email |-> lowercase(registrations[r].email),
                                             role |-> "editor"])
            /\ RegistrationStep(r, [registrations[r] EXCEPT !.pc = "done",
                                       !.status = 201, !.tokens = TRUE,
                                       !.created = Len(accounts) + 1])

InitRegister ==
    /\ InitProc
    /\ AgentIdle
    /\ AccessIdle
    /\ api = <<>>
    /\ posts = <<>>
    /\ accounts = <<>>
    /\ registrations = <<>>
    /\ socialAccounts = <<>>

NextRegister ==
    \/ \E e \in Emails : Register(e)
    \/ \E r \in 1..MaxRegistrations : FindExistingUser(r)
    \/ \E r \in 1..MaxRegistrations : CreateUser(r)

SpecRegister == InitRegister /\ [][NextRegister]_vars

Registrations == 1..Len(registrations)

\* C23: no two stored accounts have the same email; every account was
\* created by exactly one registration, the only one for that email that
\* was answered 201 with tokens; every other finished registration for the
\* email was answered with the error 400 'Email already registered', issued
\* no tokens and created no account, whether or not the registrations ran
\* concurrently.
C23_EmailsUnique ==
    /\ \A j, k \in 1..Len(accounts) :
          accounts[j].email = accounts[k].email => j = k
    /\ \A k \in 1..Len(accounts) : \E r \in Registrations :
          /\ registrations[r].created = k
          /\ registrations[r].pc = "done"
          /\ lowercase(registrations[r].email) = accounts[k].email
    /\ \A r, q \in Registrations :
          (/\ registrations[r].pc = "done"
           /\ registrations[q].pc \in {"done", "failed"}
           /\ lowercase(registrations[q].email) = lowercase(registrations[r].email)
           /\ q # r)
          => /\ registrations[q].pc = "failed"
             /\ registrations[q].status = 400
             /\ registrations[q].error = "Email already registered"
             /\ ~registrations[q].tokens
             /\ registrations[q].created = 0

(***************************************************************************)
(* Social accounts (routes/distribute.ts): connect, disconnect, platforms. *)
(* A request is taken from authenticate, which loads req.userDoc, to its   *)
(* answer; the requests of a user are served one after another.            *)
(* connectedAt, a timestamp that no route reads, is left out of an entry.  *)
(***************************************************************************)
\* the :platform parameter: the isIn chain of the two routes is never
\* consulted, so any string reaches the handler
PlatformParams == {"linkedin", "twitter", "newsletter"}

\* req.body.username: absent, or a name
Usernames == {<< >>, <<"@desk">>}

\* username || `@test_user_${platform}`
UsernameOr(username, platform) ==
    IF username = << >> THEN <<"@test_user_", platform>> ELSE username

\* the ids GET /api/distribute/platforms lists
ListedPlatforms == {"linkedin", "twitter", "facebook", "instagram", "newsletter"}

\* socialAccounts.findIndex(a => a.platform === platform): 0 stands for -1
accountIndex(list, platform) ==
    IF \E k \in 1..Len(list) : list[k].platform = platform
    THEN CHOOSE k \in 1..Len(list) :
            /\ list[k].platform = platform
            /\ \A m \in 1..(k - 1) : list[m].platform # platform
    ELSE 0

\* the connect handler's update of user.socialAccounts
Connected(list, platform, username) ==
    IF accountIndex(list, platform) > 0
    THEN [list EXCEPT ![accountIndex(list, platform)] =
              [@ EXCEPT !.connected = TRUE,
                        !.username = UsernameOr(username, platform)]]
    ELSE Append(list, [platform |-> platform, connected |-> TRUE,
                       username |-> UsernameOr(username, platform)])

\* user.socialAccounts.filter(a => a.platform !== platform)
Disconnected(list, platform) == SelectSeq(list, LAMBDA a : a.platform # platform)

\* the connected field GET /api/distribute/platforms reports for a listed id
ReportsConnected(list, platform) ==
    IF platform = "newsletter" THEN TRUE
    ELSE IF accountIndex(list, platform) > 0
         THEN list[accountIndex(list, platform)].connected
         ELSE FALSE

\* POST /api/distribute/connect/:platform
ConnectPlatform(token, platform, username) ==
    LET code == IF authenticate(token) # 0 THEN 401 ELSE 200
    IN  /\ socialAccounts' =
              IF code = 200
              THEN [socialAccounts EXCEPT
                       ![token] = Connected(@, platform, username)]
              ELSE socialAccounts
        /\ answer' = Answer("connect", token, platform, code, FALSE, {})
        /\ UNCHANGED <<agentVars, procVars, roles, voices, api, posts, accounts,
                       registrations>>

\* DELETE /api/distribute/disconnect/:platform
DisconnectPlatform(token, platform) ==
    LET code == IF authenticate(token) # 0 THEN 401 ELSE 200
    IN  /\ socialAccounts' =
              IF code = 200
              THEN [socialAccounts EXCEPT ![token] = Disconnected(@, platform)]
              ELSE socialAccounts
        /\ answer' = Answer("disconnect", token, platform, code, FALSE, {})
        /\ UNCHANGED <<agentVars, procVars, roles, voices, api, posts, accounts,
                       registrations>>

\* GET /api/distribute/platforms: status holds the ids reported connected
GetPlatforms(token) ==
    LET code == IF authenticate(token) # 0 THEN 401 ELSE 200
    IN  /\ answer' = Answer("platforms", token, "", code, FALSE,
                            IF code = 200
                            THEN {p \in ListedPlatforms :
                                     ReportsConnected(socialAccounts[token], p)}
                            ELSE {})
        /\ UNCHANGED <<agentVars, procVars, roles, voices, api, userVars>>

InitSocial ==
    /\ InitProc
    /\ AgentIdle
    /\ roles = [u \in Users |-> "editor"]
    /\ voices = << >>
    /\ answer = Answer("none", NoUser, "", 0, FALSE, {})
    /\ api = <<>>
    /\ posts = <<>>
    /\ accounts = <<>>
    /\ registrations = <<>>
    /\ socialAccounts = [u \in Users |-> << >>]

NextSocial ==
    \/ \E t \in Tokens, pl \in PlatformParams, n \in Usernames : ConnectPlatform(t, pl, n)
    \/ \E t \in Tokens, pl \in PlatformParams : DisconnectPlatform(t, pl)
    \/ \E t \in Tokens : GetPlatforms(t)

SpecSocial == InitSocial /\ [][NextSocial]_vars

Entries(list, platform) == {k \in 1..Len(list) : list[k].platform = platform}

\* C24: after any sequence of connect and disconnect requests of a user,
\* socialAccounts holds at most one entry per platform; a connect of a
\* listed platform changes that entry where it stands and adds none; the
\* entries after connecting twice are those after connecting once; after a
\* disconnect, and until the next connect, GET /api/distribute/platforms
\* reports the platform as not connected.
C24_OneEntryPerPlatform ==
    /\ \A u \in Users, pl \in PlatformParams :
          Cardinality(Entries(socialAccounts[u], pl)) <= 1
    /\ \A u \in Users, pl \in PlatformParams, n \in Usernames :
          LET list == socialAccounts[u]
              once == Connected(list, pl, n)
          IN  /\ Connected(once, pl, n) = once
              /\ Entries(list, pl) # {} =>
                    /\ Len(once) = Len(list)
                    /\ Entries(once, pl) = Entries(list, pl)
                    /\ \A k \in 1..Len(list) :
                          list[k].platform # pl => once[k] = list[k]
    /\ (answer.route = "disconnect" /\ answer.code = 200)
          => ~ReportsConnected(socialAccounts[answer.user], answer.target)

\* how often the job has emitted the event
EventCount(job, name) == Cardinality({k \in 1..Len(job.log) : job.log[k][1] = name})

\* startProcessing has returned or rejected: nothing of the run is awaited
RunEnded(job) == job.pc \in {"completed", "failed", "crashed"}

\* C25: a run that has emitted process:started never emits both
\* process:completed and process:failed nor either of them twice, and once
\* its startProcessing has returned or thrown, every awaited call having
\* returned or thrown, it has emitted exactly one of the two.
C25_StartedRunEndsWithOneEvent ==
    \A j \in Jobs :
        HasEvent(jobs[j], "process:started")
        => LET outcomes == EventCount(jobs[j], "process:completed")
                           + EventCount(jobs[j], "process:failed")
           IN  /\ outcomes <= 1
               /\ RunEnded(jobs[j]) => outcomes = 1

\* DELETE /api/articles/:id has removed the article
Deleted(a) == articles[a].status = "deleted"

\* no run of startProcessing on the article is going on
RunsEnded(a) == \A j \in Jobs : jobs[j].article = a => ~InFlight(jobs[j])

\* C26: once an article has been deleted and no processing run of it is in
\* flight any more, no ReformattedContent record references it; and a
\* deleted article is never given a status again.  (The handler's deleteMany
\* follows its findOneAndDelete; a record upserted between the two is
\* removed as one upserted before both, so the two are taken as one step.)
C26_DeletedArticleLeavesNothing ==
    /\ [](\A a \in ArticleIds :
            (Deleted(a) /\ RunsEnded(a))
            => \A k \in 1..Len(contents) : contents[k].articleId # a)
    /\ [][\A a \in ArticleIds : Deleted(a) => Deleted(a)']_vars
====
